---- MODULE Spec2Model ----
(***************************************************************************)
(* Model of the transport coordinator of arca_music (src/src/main.rs):     *)
(* the MediaPlayerApp struct, its methods, and the event handlers of       *)
(* eframe::App::update.                                                    *)
(*                                                                         *)
(* Conventions.                                                            *)
(*  - Option<T> is a sequence of length 0 (None) or 1 (Some(v)).           *)
(*  - Times are whole seconds.  An Instant is modelled by its age: the     *)
(*    wall-clock time that has passed since it was taken, which is what    *)
(*    Instant::elapsed() returns.  PassTime makes the anchor older.        *)
(*  - Every method fn m(&mut self, ..) is an operator m(s, ..) from the    *)
(*    value of *self before the call to its value after it, so a call      *)
(*    sequence in the code is a composition of operators here.             *)
(*  - The rodio Sink is the record [queue, paused, volume]: the streams    *)
(*    appended and not yet finished or stopped, the pause flag and the     *)
(*    volume (in tenths).  Sink::stop empties the queue and a later        *)
(*    append plays again (rodio >= 0.17).                                  *)
(*  - A panic (Decoder::new(..).expect, Duration::from_secs_f32 of a      *)
(*    negative number) ends the process: panicked is set and no action is  *)
(*    enabled afterwards.                                                  *)
(***************************************************************************)
EXTENDS Integers, Sequences, FiniteSets, TLC

VARIABLES
    song_title,        \* String
    artist_name,       \* String
    sink,              \* the engine behind Option<Arc<Mutex<Sink>>> (always Some)
    current_time,      \* f32, seconds
    total_time,        \* f32, seconds
    start_time,        \* Option<Instant>, as the age of the instant
    volume,            \* f32, in tenths
    songs,             \* Vec<PathBuf>
    selected_song,     \* Option<usize>, 0-based
    current_directory, \* String
    is_playing,        \* bool
    song_finished,     \* Arc<AtomicBool>
    panicked,          \* the process died on a panic
    op,                \* history: the operation that produced this state
    pre                \* history: the value of *self before that operation

vars == <<song_title, artist_name, sink, current_time, total_time, start_time,
          volume, songs, selected_song, current_directory, is_playing,
          song_finished, panicked, op, pre>>

----------------------------------------------------------------------------
(* Bounds of the model *)

\* the wall clock advances in steps of TimeStep seconds
TimeStep == 4
\* an anchor is followed until it is MaxAge seconds old
MaxAge == 8
\* the volume slider is sampled every VolumeStep tenths
VolumeStep == 5

----------------------------------------------------------------------------
(* Option<T> *)

None == <<>>
Some(v) == <<v>>
IsSome(o) == o # <<>>
Unwrap(o) == o[1]

Min(a, b) == IF a <= b THEN a ELSE b

----------------------------------------------------------------------------
(* The file system the program runs on *)

\* what opening, tagging, probing and decoding a path yields:
\*   opens    File::open(path) is Ok
\*   tag      Tag::read_from_path(path): None (Err) or Some([title, artist])
\*   est      mp3_duration::from_file: None (Err) or Some(seconds)
\*   decodes  Decoder::new is Ok
\*   dec      Source::total_duration(): None or Some(seconds)
FileInfo(path) ==
    CASE path = "a.mp3" ->
           [opens |-> TRUE, tag |-> Some([title |-> Some("A"), artist |-> Some("X")]),
            est |-> Some(15), decodes |-> TRUE, dec |-> Some(15)]
      [] path = "b.mp3" ->
           [opens |-> TRUE, tag |-> None,
            est |-> Some(5), decodes |-> TRUE, dec |-> None]
      [] path = "c.mp3" ->
           [opens |-> TRUE, tag |-> Some([title |-> None, artist |-> None]),
            est |-> None, decodes |-> TRUE, dec |-> Some(5)]
      [] path = "d.mp3" ->
           [opens |-> FALSE, tag |-> None,
            est |-> None, decodes |-> FALSE, dec |-> None]
      [] path = "e.mp3" ->
           [opens |-> TRUE, tag |-> None,
            est |-> Some(10), decodes |-> FALSE, dec |-> None]
      [] OTHER ->
           [opens |-> FALSE, tag |-> None,
            est |-> None, decodes |-> FALSE, dec |-> None]

\* fs::read_dir(directory): None (Err) or Some(the entries in listing order);
\* an entry is [path, is_file, ext] with ext = path.extension()
ReadDir(directory) ==
    CASE directory = "home" ->
           Some(<< [path |-> "a.mp3",   is_file |-> TRUE,  ext |-> Some("mp3")],
                   [path |-> "notes.txt", is_file |-> TRUE, ext |-> Some("txt")],
                   [path |-> "b.mp3",   is_file |-> TRUE,  ext |-> Some("mp3")],
                   [path |-> "old.mp3", is_file |-> FALSE, ext |-> Some("mp3")],
                   [path |-> "d.mp3",   is_file |-> TRUE,  ext |-> Some("mp3")] >>)
      [] directory = "music" ->
           Some(<< [path |-> "e.mp3",   is_file |-> TRUE,  ext |-> Some("mp3")],
                   [path |-> "LOUD.MP3", is_file |-> TRUE, ext |-> Some("MP3")],
                   [path |-> "README",  is_file |-> TRUE,  ext |-> None],
                   [path |-> "c.mp3",   is_file |-> TRUE,  ext |-> Some("mp3")] >>)
      [] directory = "empty" -> Some(<< >>)
      [] OTHER -> None

\* what FileDialog::new().pick_folder() can return, as Option<Option<String>>:
\* None (cancelled), Some(None) (a path that is not UTF-8: to_str() is None),
\* Some(Some(dir))
Picks == {None, Some(None)} \cup {Some(Some(d)) : d \in {"home", "music", "empty", "locked"}}

----------------------------------------------------------------------------
(* MediaPlayerApp *)

RECURSIVE ScanEntries(_)
ScanEntries(entries) ==
    IF entries = << >> THEN << >>
    ELSE LET entry == Head(entries)
             rest == ScanEntries(Tail(entries))
         IN IF entry.is_file /\ (IF IsSome(entry.ext) THEN Unwrap(entry.ext) = "mp3" ELSE FALSE)
            THEN <<entry.path>> \o rest
            ELSE rest

\* mutant of read_songs_from_directory: the extension is compared ignoring case
\* and the entry is not required to be a file
read_songs_from_directory_any_case(directory) ==
    LET entries == ReadDir(directory)
        Keep(entry) == entry.ext \in {Some("mp3"), Some("MP3")}
        RECURSIVE Scan(_)
        Scan(es) == IF es = << >> THEN << >>
                    ELSE IF Keep(Head(es)) THEN <<Head(es).path>> \o Scan(Tail(es))
                    ELSE Scan(Tail(es))
    IN IF IsSome(entries) THEN Scan(Unwrap(entries)) ELSE << >>

read_songs_from_directory(directory) ==
    LET entries == ReadDir(directory)
    IN IF IsSome(entries) THEN ScanEntries(Unwrap(entries)) ELSE << >>

\* the application state as one value
Self ==
    [song_title |-> song_title, artist_name |-> artist_name, sink |-> sink,
     current_time |-> current_time, total_time |-> total_time,
     start_time |-> start_time, volume |-> volume, songs |-> songs,
     selected_song |-> selected_song, current_directory |-> current_directory,
     is_playing |-> is_playing, song_finished |-> song_finished,
     panicked |-> panicked]

\* impl Default for MediaPlayerApp
Default ==
    [song_title |-> "Song Title", artist_name |-> "Unknown Artist",
     sink |-> [queue |-> << >>, paused |-> FALSE, volume |-> 10],
     current_time |-> 0, total_time |-> 200,
     start_time |-> None, volume |-> 5,
     songs |-> read_songs_from_directory("home"),
     selected_song |-> None, current_directory |-> "home",
     is_playing |-> FALSE, song_finished |-> FALSE,
     panicked |-> FALSE]

\* songs.get(index)
Get(v, index) == IF index < Len(v) THEN Some(v[index + 1]) ELSE None

\* mutant of stop_current_song: the sink is not stopped
stop_current_song_keeps_stream(s) ==
    [s EXCEPT !.is_playing = FALSE,
              !.current_time = 0]

stop_current_song(s) ==
    [s EXCEPT !.sink.queue = << >>,
              !.is_playing = FALSE,
              !.current_time = 0]

stop(s) == stop_current_song(s)

\* mutant of play: the anchor is not recorded
play_without_anchor(s) ==
    [s EXCEPT !.sink.paused = FALSE,
              !.sink.volume = s.volume,
              !.is_playing = TRUE]

play(s) ==
    [s EXCEPT !.sink.paused = FALSE,
              !.sink.volume = s.volume,
              !.start_time = Some(0),
              !.is_playing = TRUE]

\* mutant of pause: the anchor is not cleared
pause_keeps_anchor(s) ==
    [s EXCEPT !.sink.paused = TRUE,
              !.is_playing = FALSE]

pause(s) ==
    [s EXCEPT !.sink.paused = TRUE,
              !.is_playing = FALSE,
              !.start_time = None]

load_song(s) ==
    IF ~IsSome(s.selected_song) THEN s
    ELSE LET path == Get(s.songs, Unwrap(s.selected_song))
         IN IF ~IsSome(path) THEN s
            ELSE LET f == FileInfo(Unwrap(path))
                 IN IF f.opens
                    THEN LET title == IF IsSome(f.tag)
                                      THEN (IF IsSome(Unwrap(f.tag).title)
                                            THEN Unwrap(Unwrap(f.tag).title)
                                            ELSE "Unknown Title")
                                      ELSE Unwrap(path)
                             artist == IF IsSome(f.tag)
                                       THEN (IF IsSome(Unwrap(f.tag).artist)
                                             THEN Unwrap(Unwrap(f.tag).artist)
                                             ELSE "Unknown Artist")
                                       ELSE "Unknown Artist"
                             estimated == IF IsSome(f.est) THEN Unwrap(f.est) ELSE 0
                             s1 == [s EXCEPT !.song_title = title,
                                             !.artist_name = artist,
                                             !.total_time = estimated]
                         IN IF ~f.decodes
                            THEN [s1 EXCEPT !.panicked = TRUE]
                            ELSE [s1 EXCEPT
                                    !.total_time = IF IsSome(f.dec) THEN Unwrap(f.dec) ELSE 0,
                                    !.sink.queue = Append(s1.sink.queue,
                                                          [path |-> Unwrap(path), skip |-> 0]),
                                    !.current_time = 0,
                                    !.song_finished = FALSE]
                    ELSE [s EXCEPT !.song_title = "Failed to load song",
                                   !.artist_name = "Unknown Artist"]

\* mutant of load_and_play_song: the current song is not stopped first
load_and_play_song_without_stop(s) ==
    LET s1 == load_song(s)
    IN IF s1.panicked THEN s1 ELSE play(s1)

load_and_play_song(s) ==
    LET s1 == load_song(stop_current_song(s))
    IN IF s1.panicked THEN s1 ELSE play(s1)

\* mutant of previous_song: index 0 is not excluded (saturating decrement)
previous_song_reloads_first(s) ==
    IF IsSome(s.selected_song)
    THEN load_and_play_song(
             [s EXCEPT !.selected_song =
                 Some(IF Unwrap(s.selected_song) > 0 THEN Unwrap(s.selected_song) - 1 ELSE 0)])
    ELSE s

previous_song(s) ==
    IF IsSome(s.selected_song) /\ Unwrap(s.selected_song) > 0
    THEN load_and_play_song([s EXCEPT !.selected_song = Some(Unwrap(s.selected_song) - 1)])
    ELSE s

\* mutant of next_song: past the last index the selection wraps to index 0
next_song_wraps(s) ==
    IF IsSome(s.selected_song)
    THEN load_and_play_song(
             [s EXCEPT !.selected_song =
                 Some(IF Unwrap(s.selected_song) + 1 < Len(s.songs)
                      THEN Unwrap(s.selected_song) + 1 ELSE 0)])
    ELSE s

next_song(s) ==
    IF IsSome(s.selected_song)
    THEN IF Unwrap(s.selected_song) + 1 < Len(s.songs)
         THEN load_and_play_song([s EXCEPT !.selected_song = Some(Unwrap(s.selected_song) + 1)])
         ELSE stop(s)
    ELSE s

check_song_finished(s) ==
    IF s.song_finished
    THEN next_song([s EXCEPT !.song_finished = FALSE])
    ELSE s

\* mutant of update_directory: the selection is reset whatever the dialog returns
update_directory_resets_on_cancel(s, pick) ==
    IF IsSome(pick) /\ IsSome(Unwrap(pick))
    THEN LET dir_str == Unwrap(Unwrap(pick))
         IN [s EXCEPT !.current_directory = dir_str,
                      !.songs = read_songs_from_directory(dir_str),
                      !.selected_song = None]
    ELSE [s EXCEPT !.selected_song = None]

\* mutant of update_directory: the selection is not reset
update_directory_keeps_selection(s, pick) ==
    IF IsSome(pick) /\ IsSome(Unwrap(pick))
    THEN LET dir_str == Unwrap(Unwrap(pick))
         IN [s EXCEPT !.current_directory = dir_str,
                      !.songs = read_songs_from_directory(dir_str)]
    ELSE s

update_directory(s, pick) ==
    IF IsSome(pick) /\ IsSome(Unwrap(pick))
    THEN LET dir_str == Unwrap(Unwrap(pick))
         IN [s EXCEPT !.current_directory = dir_str,
                      !.songs = read_songs_from_directory(dir_str),
                      !.selected_song = None]
    ELSE s

update_progress(s, value) == [s EXCEPT !.current_time = value]

\* mutant of update_time: the anchor is not moved to now
update_time_keeps_anchor(s) ==
    IF IsSome(s.start_time)
    THEN LET elapsed == Unwrap(s.start_time)
             normalized_elapsed == IF s.total_time <= 10
                                   THEN (elapsed * s.total_time) \div 10
                                   ELSE elapsed
         IN [s EXCEPT !.current_time = Min(s.current_time + normalized_elapsed, s.total_time)]
    ELSE s

\* mutant of update_time: short clips are not normalized
update_time_unscaled(s) ==
    IF IsSome(s.start_time)
    THEN [s EXCEPT !.current_time = Min(s.current_time + Unwrap(s.start_time), s.total_time),
                   !.start_time = Some(0)]
    ELSE s

\* mutant of update_time: the sum is not capped at total_time
update_time_unclamped(s) ==
    IF IsSome(s.start_time)
    THEN LET elapsed == Unwrap(s.start_time)
             normalized_elapsed == IF s.total_time <= 10
                                   THEN (elapsed * s.total_time) \div 10
                                   ELSE elapsed
         IN [s EXCEPT !.current_time = s.current_time + normalized_elapsed,
                      !.start_time = Some(0)]
    ELSE s

update_time(s) ==
    IF IsSome(s.start_time)
    THEN LET elapsed == Unwrap(s.start_time)
             normalized_elapsed == IF s.total_time <= 10
                                   THEN (elapsed * s.total_time) \div 10
                                   ELSE elapsed
         IN [s EXCEPT !.current_time = Min(s.current_time + normalized_elapsed, s.total_time),
                      !.start_time = Some(0)]
    ELSE s

adjust_volume(s) == [s EXCEPT !.sink.volume = s.volume]

seek(s, position) ==
    IF ~IsSome(s.selected_song) THEN s
    ELSE LET path == Get(s.songs, Unwrap(s.selected_song))
         IN IF ~IsSome(path) THEN s
            ELSE LET s1 == [s EXCEPT !.sink.queue = << >>]
                     f == FileInfo(Unwrap(path))
                 IN IF ~f.opens THEN s1
                    ELSE IF ~f.decodes THEN [s1 EXCEPT !.panicked = TRUE]
                    ELSE IF position < 0 THEN [s1 EXCEPT !.panicked = TRUE]
                    ELSE [s1 EXCEPT
                            !.current_time = Min(position, s1.total_time),
                            !.sink.queue = <<[path |-> Unwrap(path), skip |-> position]>>,
                            !.sink.paused = FALSE]

----------------------------------------------------------------------------
(* The state machine *)

Commit(s) ==
    /\ song_title' = s.song_title
    /\ artist_name' = s.artist_name
    /\ sink' = s.sink
    /\ current_time' = s.current_time
    /\ total_time' = s.total_time
    /\ start_time' = s.start_time
    /\ volume' = s.volume
    /\ songs' = s.songs
    /\ selected_song' = s.selected_song
    /\ current_directory' = s.current_directory
    /\ is_playing' = s.is_playing
    /\ song_finished' = s.song_finished
    /\ panicked' = s.panicked

\* the step of operation name with argument arg that takes *self to s
Step(name, arg, s) ==
    /\ ~panicked
    /\ Commit(s)
    /\ op' = [name |-> name, arg |-> arg]
    /\ pre' = Self

Init ==
    /\ song_title = Default.song_title
    /\ artist_name = Default.artist_name
    /\ sink = Default.sink
    /\ current_time = Default.current_time
    /\ total_time = Default.total_time
    /\ start_time = Default.start_time
    /\ volume = Default.volume
    /\ songs = Default.songs
    /\ selected_song = Default.selected_song
    /\ current_directory = Default.current_directory
    /\ is_playing = Default.is_playing
    /\ song_finished = Default.song_finished
    /\ panicked = Default.panicked
    /\ op = [name |-> "init", arg |-> None]
    /\ pre = Default

\* wall-clock time passes: the anchor, when there is one, gets older
PassTime ==
    /\ IsSome(start_time)
    /\ Unwrap(start_time) + TimeStep <= MaxAge
    /\ Step("pass_time", None,
            [Self EXCEPT !.start_time = Some(Unwrap(start_time) + TimeStep)])

\* the engine's playback thread plays the stream at the head of the queue to
\* its end; nothing in the program is called back
StreamEnd ==
    /\ sink.queue # << >>
    /\ ~sink.paused
    /\ Step("stream_end", None, [Self EXCEPT !.sink.queue = Tail(sink.queue)])

\* the head of eframe::App::update, run on every repaint
Tick ==
    Step("tick", None, check_song_finished(update_time(Self)))

\* a label of the song list is clicked
SongClicked(index) ==
    /\ songs # << >>
    /\ Step("select", Some(index),
            load_and_play_song([Self EXCEPT !.selected_song = Some(index)]))

SelectDirectoryClicked(pick) ==
    Step("change_directory", pick, update_directory(Self, pick))

\* the progress slider is dragged to value: the slider writes current_time
ProgressSliderChanged(value) ==
    Step("seek", Some(value), seek([Self EXCEPT !.current_time = value], value))

BackClicked ==
    Step("previous", None, previous_song(Self))

PlayClicked ==
    Step("toggle_play_pause", None, IF is_playing THEN pause(Self) ELSE play(Self))

NextClicked ==
    Step("next", None, next_song(stop(update_progress(Self, 0))))

StopClicked ==
    Step("stop", None, stop(Self))

\* the volume slider is dragged to value: the slider writes volume
VolumeSliderChanged(value) ==
    Step("set_volume", Some(value), adjust_volume([Self EXCEPT !.volume = value]))

\* the positions the progress slider is dragged to, within 0.0..=total_time
SliderPositions == {0, total_time \div 2, total_time}

\* the values the volume slider is dragged to, within 0.0..=1.0
VolumeLevels == {v \in 0..10 : v % VolumeStep = 0}

Next ==
    \/ PassTime
    \/ StreamEnd
    \/ Tick
    \/ \E index \in 0..(Len(songs) - 1) : SongClicked(index)
    \/ \E pick \in Picks : SelectDirectoryClicked(pick)
    \/ \E value \in SliderPositions : ProgressSliderChanged(value)
    \/ BackClicked
    \/ PlayClicked
    \/ NextClicked
    \/ StopClicked
    \/ \E value \in VolumeLevels : VolumeSliderChanged(value)

Spec == Init /\ [][Next]_vars

\* seek called with any f32 position, as a caller other than the slider may
SeekTo(position) ==
    Step("seek_to", Some(position), seek(Self, position))

\* positions on both sides of 0.0..=total_time
SeekInputs == {0 - TimeStep, 0, total_time, total_time + TimeStep}

SeekNext ==
    \/ Next
    \/ \E position \in SeekInputs : SeekTo(position)

SpecSeek == Init /\ [][SeekNext]_vars

----------------------------------------------------------------------------
(* Vocabulary of the properties *)

\* the file at index of a library opens and decodes
Loads(library, index) ==
    /\ index < Len(library)
    /\ FileInfo(library[index + 1]).opens
    /\ FileInfo(library[index + 1]).decodes

\* the file at index of a library cannot be opened
FailsToOpen(library, index) ==
    /\ index < Len(library)
    /\ ~FileInfo(library[index + 1]).opens

\* the fresh stream of the track at index of a library
FreshStream(library, index) == [path |-> library[index + 1], skip |-> 0]

\* the session states of the coordinator, read off a value of *self
Stopped(s) == ~s.is_playing /\ s.sink.queue = << >>
Paused(s) == ~s.is_playing /\ s.sink.queue # << >> /\ s.sink.paused
Playing(s) == s.is_playing

\* the last operation picked a directory (the dialog was not cancelled)
PickedDirectory ==
    /\ op.name = "change_directory"
    /\ IsSome(op.arg)
    /\ IsSome(Unwrap(op.arg))

\* the last operation loaded the track it left selected
LoadedSelection ==
    \/ op.name = "select"
    \/ /\ op.name \in {"next", "previous"}
       /\ selected_song # pre.selected_song

\* the last operation was next() on the last index of the Library
NextAtLastIndex ==
    /\ op.name = "next"
    /\ IsSome(pre.selected_song)
    /\ Unwrap(pre.selected_song) + 1 = Len(pre.songs)

\* the last operation was previous() on index 0
PreviousAtFirstIndex ==
    /\ op.name = "previous"
    /\ pre.selected_song = Some(0)

----------------------------------------------------------------------------
(* The claims *)

\* C1: in every reachable state the elapsed time lies between 0 and the total
\* duration, also right after a track of another duration is loaded.
C1_ElapsedWithinTotal ==
    /\ 0 <= current_time
    /\ current_time <= total_time

\* a track with a shorter duration was loaded over an elapsed time beyond it
C1_Witness ==
    /\ LoadedSelection
    /\ ~panicked
    /\ total_time # pre.total_time
    /\ pre.current_time > total_time

\* C2: in every reachable state the selected index, when present, is a valid
\* index into the current Library.
C2_SelectionInRange ==
    IsSome(selected_song) => Unwrap(selected_song) < Len(songs)

\* the directory was changed to a Library too short for the old selection
C2_Witness ==
    /\ PickedDirectory
    /\ IsSome(pre.selected_song)
    /\ Unwrap(pre.selected_song) >= Len(songs)

\* C3: next() on the last index of the Library leaves the session Stopped (not
\* playing, elapsed 0, nothing queued) and the selection where it was: it does
\* not wrap to index 0.
C3_NextAtLastStops ==
    NextAtLastIndex =>
        /\ Stopped(Self)
        /\ current_time = 0
        /\ selected_song = pre.selected_song

\* next() was pressed on the last index while that track was playing
C3_Witness ==
    /\ NextAtLastIndex
    /\ Unwrap(pre.selected_song) > 0
    /\ Playing(pre)
    /\ pre.sink.queue # << >>
    /\ pre.current_time > 0

\* C4: previous() on index 0 changes nothing: selection, playing flag, elapsed
\* time, total duration, anchor and loaded stream are what they were.
C4_PreviousAtFirstNoOp ==
    PreviousAtFirstIndex => Self = pre

\* previous() was pressed on index 0 in the middle of the playing track
C4_Witness ==
    /\ PreviousAtFirstIndex
    /\ Playing(pre)
    /\ pre.sink.queue # << >>
    /\ pre.current_time > 0
    /\ IsSome(pre.start_time) /\ Unwrap(pre.start_time) > 0

\* C5: select(index) on a track that loads leaves the session Playing on that
\* index with elapsed 0 and exactly the new track's stream queued, whatever the
\* state before.
C5_SelectPlaysNewTrack ==
    (op.name = "select" /\ Loads(pre.songs, Unwrap(op.arg))) =>
        /\ selected_song = op.arg
        /\ Playing(Self)
        /\ start_time = Some(0)
        /\ current_time = 0
        /\ sink.queue = <<FreshStream(pre.songs, Unwrap(op.arg))>>
        /\ ~sink.paused

\* another track was selected while a track was paused part-way
C5_Witness ==
    /\ op.name = "select"
    /\ Loads(pre.songs, Unwrap(op.arg))
    /\ Paused(pre)
    /\ pre.current_time > 0
    /\ IsSome(pre.selected_song)
    /\ pre.selected_song # op.arg

\* C6: a tick leaves the elapsed time unchanged unless the session is Playing;
\* after stop() the elapsed time stays 0 under ticks.
C6_TickOnlyWhilePlaying ==
    (op.name = "tick" /\ ~Playing(pre)) => current_time = pre.current_time

\* C7: when the selected track's file cannot be opened the title is the
\* "Failed to load song" sentinel and the session is not Playing.
C7_FailedLoadDoesNotPlay ==
    (LoadedSelection /\ FailsToOpen(songs, Unwrap(selected_song))) =>
        /\ song_title = "Failed to load song"
        /\ ~Playing(Self)

\* C8: the play toggle takes Playing to Paused and Paused to Playing, and from
\* Stopped with a selection it acts as select on that index: the track is
\* loaded again, elapsed is 0 and the session is Playing with its stream queued.
C8_ToggleFromStoppedSelects ==
    op.name = "toggle_play_pause" =>
        /\ Playing(pre) => ~Playing(Self) /\ sink.paused
        /\ Paused(pre) => Playing(Self) /\ ~sink.paused
        /\ (/\ Stopped(pre)
            /\ IsSome(pre.selected_song)
            /\ Loads(pre.songs, Unwrap(pre.selected_song))) =>
                /\ Playing(Self)
                /\ current_time = 0
                /\ sink.queue = <<FreshStream(pre.songs, Unwrap(pre.selected_song))>>

\* C9: change_directory with a chosen path replaces the Library by the scan of
\* the path, clears the selection and stops playback.
C9_ChangeDirectoryStops ==
    PickedDirectory =>
        /\ songs = read_songs_from_directory(Unwrap(Unwrap(op.arg)))
        /\ selected_song = None
        /\ Stopped(Self)
        /\ current_time = 0

\* C10: when the playing track's stream reaches its end the engine sets the
\* track-finished signal, for the next tick to observe, clear and follow by
\* next().
C10_StreamEndSignals ==
    (op.name = "stream_end" /\ Playing(pre)) => song_finished

\* C11: a second tick at the same instant as the first (no wall-clock time
\* between them) adds nothing to the elapsed time: the first moved the anchor.
C11_TickTwiceSameNow ==
    LET tick(s) == check_song_finished(update_time(s))
    IN /\ tick(tick(Self)).current_time = tick(Self).current_time
       /\ (op.name = "tick" /\ ~panicked) => tick(Self).current_time = current_time

\* a tick has just added wall-clock time to the elapsed time
C11_Witness ==
    /\ op.name = "tick"
    /\ IsSome(pre.start_time) /\ Unwrap(pre.start_time) > 0
    /\ current_time > pre.current_time
    /\ current_time < total_time

\* the last operation was seek(position) on a selected track that loads
SeekToLoadable ==
    /\ op.name = "seek_to"
    /\ IsSome(pre.selected_song)
    /\ Loads(pre.songs, Unwrap(pre.selected_song))

\* C12: seek_to clamps every position to [0, total duration]: below 0 the
\* elapsed time and the skip are 0, above the total the elapsed time is the
\* total, and the operation does not fail.
C12_SeekClamps ==
    SeekToLoadable =>
        LET position == Unwrap(op.arg)
        IN /\ ~panicked
           /\ position < 0 => current_time = 0 /\ sink.queue[1].skip = 0
           /\ position > pre.total_time => current_time = pre.total_time
           /\ (0 <= position /\ position <= pre.total_time) => current_time = position

\* C13: after a load the total duration is the decoder's when it reports one,
\* else the estimator's when it succeeds, else 0.
C13_DurationPreference ==
    (LoadedSelection /\ Loads(songs, Unwrap(selected_song))) =>
        LET f == FileInfo(songs[Unwrap(selected_song) + 1])
        IN total_time = IF IsSome(f.dec) THEN Unwrap(f.dec)
                        ELSE IF IsSome(f.est) THEN Unwrap(f.est)
                        ELSE 0

\* the paths of the entries of a listing that are files with extension "mp3",
\* in the order of the listing
Mp3Files(listing) ==
    LET kept == SelectSeq(listing, LAMBDA e : e.is_file /\ e.ext = Some("mp3"))
    IN [i \in 1..Len(kept) |-> kept[i].path]

\* C14: the Library is exactly the files of the listing whose extension is
\* "mp3" (case-sensitive), in listing order; an unreadable directory gives the
\* empty sequence.
C14_ScanExactlyMp3Files ==
    /\ songs = read_songs_from_directory(current_directory)
    /\ songs = IF IsSome(ReadDir(current_directory))
               THEN Mp3Files(Unwrap(ReadDir(current_directory)))
               ELSE << >>

\* a directory holding a subdirectory or an upper-case or missing extension
\* was scanned
C14_Witness ==
    /\ PickedDirectory
    /\ songs # << >>
    /\ \E i \in 1..Len(Unwrap(ReadDir(current_directory))) :
           LET e == Unwrap(ReadDir(current_directory))[i]
           IN (e.ext = Some("MP3") \/ ~e.is_file) /\ \A j \in 1..Len(songs) : songs[j] # e.path

\* an unreadable directory was scanned
C14_WitnessUnreadable ==
    /\ PickedDirectory
    /\ ~IsSome(ReadDir(current_directory))
    /\ pre.songs # << >>

\* C15: after a seek on a selected track that loads, the engine plays the
\* re-decoded stream and the coordinator is Playing with the anchor set.
C15_SeekLeavesPlaying ==
    (/\ op.name = "seek"
     /\ IsSome(pre.selected_song)
     /\ Loads(pre.songs, Unwrap(pre.selected_song))) =>
        /\ sink.queue # << >> /\ ~sink.paused
        /\ Playing(Self)
        /\ IsSome(start_time)

\* the last operation was next() below the last index / previous() above 0
NextAdvanced ==
    /\ op.name = "next"
    /\ IsSome(pre.selected_song)
    /\ Unwrap(pre.selected_song) + 1 < Len(pre.songs)

PreviousRetreated ==
    /\ op.name = "previous"
    /\ IsSome(pre.selected_song)
    /\ Unwrap(pre.selected_song) > 0

\* the session plays the selected track from its start and nothing else
PlayingSelectedFromStart ==
    /\ Playing(Self)
    /\ start_time = Some(0)
    /\ current_time = 0
    /\ \A i \in 1..Len(sink.queue) :
           sink.queue[i] = FreshStream(songs, Unwrap(selected_song))
    /\ Loads(songs, Unwrap(selected_song)) =>
           sink.queue = <<FreshStream(songs, Unwrap(selected_song))>> /\ ~sink.paused

C16_WitnessPrevious ==
    /\ PreviousRetreated
    /\ Playing(pre) /\ pre.sink.queue # << >>
    /\ sink.queue # << >>

\* C17: a tick with the anchor d seconds old adds d * total / 10 when the
\* total duration is at most 10 seconds and d when it is more, and caps the
\* sum at the total duration.
C17_ShortClipNormalization ==
    (op.name = "tick" /\ IsSome(pre.start_time)) =>
        LET d == Unwrap(pre.start_time)
            added == IF pre.total_time <= 10 THEN (d * pre.total_time) \div 10 ELSE d
        IN current_time = IF pre.current_time + added <= pre.total_time
                        THEN pre.current_time + added
                        ELSE pre.total_time

\* a tick added a scaled delta to a short clip without reaching the cap
C17_Witness ==
    /\ op.name = "tick"
    /\ IsSome(pre.start_time) /\ Unwrap(pre.start_time) > 0
    /\ 0 < pre.total_time /\ pre.total_time <= 10
    /\ pre.current_time < current_time
    /\ current_time < pre.current_time + Unwrap(pre.start_time)
    /\ current_time < total_time

\* a tick added the whole delta to a long track
C17_WitnessLong ==
    /\ op.name = "tick"
    /\ pre.total_time > 10
    /\ IsSome(pre.start_time) /\ Unwrap(pre.start_time) > 0
    /\ current_time = pre.current_time + Unwrap(pre.start_time)

\* C18: whenever is_playing is true the anchor is present; play() sets both
\* and pause() clears both.
C18_PlayingHasAnchor ==
    /\ is_playing => IsSome(start_time)
    /\ op.name = "toggle_play_pause" =>
          IF pre.is_playing
          THEN ~is_playing /\ start_time = None
          ELSE is_playing /\ IsSome(start_time)

\* play() was pressed in a state without an anchor
C18_Witness ==
    /\ op.name = "toggle_play_pause"
    /\ ~pre.is_playing
    /\ pre.start_time = None
    /\ is_playing

\* C19: pause and the play that resumes leave selection, Library, total
\* duration, elapsed time and stream as they were; while Paused neither ticks
\* nor the passing of time change the elapsed time, and the resuming play
\* starts a fresh anchor, so time spent paused is not added.
C19_PauseResumeKeepsElapsed ==
    /\ op.name = "toggle_play_pause" =>
          /\ current_time = pre.current_time
          /\ total_time = pre.total_time
          /\ selected_song = pre.selected_song
          /\ songs = pre.songs
          /\ sink.queue = pre.sink.queue
          /\ ~pre.is_playing => start_time = Some(0)
    /\ Paused(Self) => start_time = None
    /\ (op.name = "tick" /\ Paused(pre)) =>
          /\ Paused(Self)
          /\ current_time = pre.current_time

\* a track paused part-way was resumed
C19_Witness ==
    /\ op.name = "toggle_play_pause"
    /\ Paused(pre)
    /\ 0 < pre.current_time /\ pre.current_time < pre.total_time
    /\ Playing(Self)

\* C20: change_directory with the dialog cancelled leaves the whole
\* application state as it was.
C20_CancelChangesNothing ==
    (op.name = "change_directory" /\ op.arg = None) => Self = pre

\* the dialog was cancelled while a selected track was playing part-way
C20_Witness ==
    /\ op.name = "change_directory"
    /\ op.arg = None
    /\ is_playing /\ IsSome(selected_song) /\ current_time > 0

====
